---------------------------- MODULE Spec2Model ----------------------------
(***************************************************************************)
(* The wasm boundary of packages/ts_parser/src/lib.rs: the exports         *)
(* allocate, deallocate and print_ast ("run"), the linear memory they      *)
(* share with the host, and the global allocator's set of live blocks.     *)
(***************************************************************************)
EXTENDS Integers, Sequences, FiniteSets, Bags

(***************************************************************************)
(* Bounds of the model.  Linear memory is 0 .. HeapBase + HeapSize - 1;    *)
(* the allocator hands out addresses from HeapBase upwards only (below it  *)
(* lie the module's stack and static data), at multiples of Grain.  The    *)
(* memory below HeapBase is large enough for every region the host asks    *)
(* for.                                                                    *)
(***************************************************************************)
HeapBase == 24
HeapSize == 64
Grain == 8
MaxInputs == 2
MaxOutputs == 2

MemSize == HeapBase + HeapSize
Heap == HeapBase .. (MemSize - 1)

\* NonNull::dangling() of a u8 buffer: the alignment of u8, used by every
\* Vec, Box<[u8]> and String that holds no storage.
Dangling == 1

\* What is read from a byte that no one has written since it was last
\* (re)allocated.
Unspec == "??"

Range(p, n) == p .. (p + n - 1)

(***************************************************************************)
(* Texts.  A text is a sequence of one-byte characters.                    *)
(***************************************************************************)
Sentinel ==
  << "{", "\"", "h", "e", "y", "\"", ":", " ", "\"", "t", "h", "e", "r", "e", "\"", "}" >>

FailureNotice == << "A TypeScript error occured in your Astro component" >>

TextEmpty == << >>
TextValid == << "c", "o", "n", "s", "t", " ", "x", " ", "=", " ", "1", ";" >>
TextInvalid == << "c", "o", "n", "s", "t", " ", "x", " ", "=", " ", ";" >>

\* The source texts the host writes, and the sizes it allocates: the length
\* of each text, and two sizes of regions it never runs.
HostTexts == { TextEmpty, TextValid, TextInvalid }
AllocSizes == { Len(t) : t \in HostTexts } \cup { 10, 20 }


(***************************************************************************)
(* Linear memory: the bytes written so far, by address.  An address        *)
(* outside the domain holds no specified byte.                             *)
(***************************************************************************)
Byte(m, a) == IF a \in DOMAIN m THEN m[a] ELSE Unspec

Read(m, p, n) == [k \in 1 .. n |-> Byte(m, p + k - 1)]

Write(m, p, text) ==
  [a \in (DOMAIN m) \cup Range(p, Len(text)) |->
     IF a \in Range(p, Len(text)) THEN text[a - p + 1] ELSE m[a]]

Clear(m, p, n) == [a \in (DOMAIN m) \ Range(p, n) |-> m[a]]

(***************************************************************************)
(* The global allocator (static ALLOC).  A live block is the pointer and   *)
(* the layout size it was requested with; alloc may return any free place. *)
(***************************************************************************)
Block(p, n) == [ptr |-> p, size |-> n]

Overlap(p, n, q, k) == n > 0 /\ k > 0 /\ p < q + k /\ q < p + n

alloc(blocks, n) ==
  { p \in Heap : /\ (p - HeapBase) % Grain = 0
                 /\ p + n <= MemSize
                 /\ \A b \in blocks : ~Overlap(p, n, b.ptr, b.size) }

\* A buffer of n bytes for a Vec or String: no allocator call for n = 0.
Buffers(blocks, n) == IF n = 0 THEN { Dangling } ELSE alloc(blocks, n)

Held(p, n) == IF n = 0 THEN {} ELSE { Block(p, n) }

(***************************************************************************)
(* Fixed-width integers.  A u32 is two 16-bit limbs and a u64 four, most   *)
(* significant first, so that every bit of a 64-bit value is kept.         *)
(***************************************************************************)
U32Bits == 32
LimbBits == U32Bits \div 2
LimbBase == 2 ^ LimbBits

\* usize -> u32 (`as u32`; usize is 32 bits wide on wasm32).
AsU32(n) == << (n \div LimbBase) % LimbBase, n % LimbBase >>

\* u32 -> u64 (`as u64`: zero extension).
AsU64(x) == << 0, 0, x[1], x[2] >>

\* u64 -> u32 (truncation to the low half).
LowU32(v) == << v[3], v[4] >>

ToNat(x) == x[1] * LimbBase + x[2]

RECURSIVE BitOr(_, _, _)
BitOr(a, b, w) ==
  IF w = 0 THEN 0
  ELSE (IF a % 2 = 1 \/ b % 2 = 1 THEN 1 ELSE 0) + 2 * BitOr(a \div 2, b \div 2, w - 1)

RECURSIVE BitAnd(_, _, _)
BitAnd(a, b, w) ==
  IF w = 0 THEN 0
  ELSE (IF a % 2 = 1 /\ b % 2 = 1 THEN 1 ELSE 0) + 2 * BitAnd(a \div 2, b \div 2, w - 1)

Or64(v, w) == [i \in 1 .. 4 |-> BitOr(v[i], w[i], LimbBits)]
And64(v, w) == [i \in 1 .. 4 |-> BitAnd(v[i], w[i], LimbBits)]

\* v << n and v >> n on 64 bits, n a multiple of the limb width; the bits
\* shifted past either end are lost.
Shl64(v, n) == [i \in 1 .. 4 |-> IF i + n \div LimbBits <= 4 THEN v[i + n \div LimbBits] ELSE 0]
Shr64(v, n) == [i \in 1 .. 4 |-> IF i - n \div LimbBits >= 1 THEN v[i - n \div LimbBits] ELSE 0]

(***************************************************************************)
(* Packed Return Encoder.                                                  *)
(***************************************************************************)
pack_narrow_shift(ptr, len) == Or64(Shl64(AsU64(ptr), 16), AsU64(len))

pack_swapped(ptr, len) == Or64(Shl64(AsU64(len), 32), AsU64(ptr))

\* ((ptr as u64) << 32) | len as u64
pack(ptr, len) == Or64(Shl64(AsU64(ptr), 32), AsU64(len))

\* The host's side: offset = value >> 32, length = value & 0xFFFFFFFF.
unpack(value) ==
  [offset |-> LowU32(Shr64(value, 32)),
   length |-> LowU32(And64(value, << 0, 0, LimbBase - 1, LimbBase - 1 >>))]

(***************************************************************************)
(* The external parser and serializer, tabulated for the texts of the      *)
(* model: Parser::new(..).parse() and serde_json::to_string_pretty.        *)
(***************************************************************************)
parse(source_text) ==
  IF source_text = TextEmpty THEN [errors |-> {}, program |-> << >>]
  ELSE IF source_text = TextValid THEN [errors |-> {}, program |-> << "V" >>]
  ELSE [errors |-> { "Unexpected token" }, program |-> << >>]

RECURSIVE Items(_)
Items(body) ==
  IF body = << >> THEN << >>
  ELSE << "\"", Head(body), "\"" >>
       \o (IF Tail(body) = << >> THEN << >> ELSE << "," >>) \o Items(Tail(body))

to_string_pretty(program) ==
  << "{", "\n", " ", " ", "\"", "b", "o", "d", "y", "\"", ":", " ", "[" >>
  \o Items(program) \o << "]", "\n", "}" >>

(***************************************************************************)
(* print_ast: the result text and what is sent to the console.             *)
(* result: the String returned; log: what console::log_1 is given; temps:  *)
(* the sizes of the buffers allocated and released again before returning: *)
(* the parser's arena (dropped with allocator and ret at the end of the    *)
(* function), and on success the String to_string_pretty returns (dropped  *)
(* at the end of its statement) and the clone of json_string made for the  *)
(* console (dropped after log_1).                                          *)
(***************************************************************************)
\* The arena's storage is the parser's own; one allocation unit stands for it.
Arena == Grain

Diagnostic == << "e", "r", "r", "o", "r" >>

print_ast_diagnostics(source_text) ==
  LET ret == parse(source_text)
  IN IF ret.errors = {}
     THEN LET json_string == to_string_pretty(ret.program)
          IN [result |-> json_string, log |-> << json_string >>,
              temps |-> << Arena, Len(json_string), Len(json_string) >>]
     ELSE [result |-> Diagnostic, log |-> << FailureNotice >>, temps |-> << Arena >>]

print_ast_sentinel_only(source_text) ==
  [result |-> Sentinel, log |-> << FailureNotice >>, temps |-> << Arena >>]

print_ast(source_text) ==
  LET ret == parse(source_text)
  IN IF ret.errors = {}
     THEN LET json_string == to_string_pretty(ret.program)
          IN [result |-> json_string, log |-> << json_string >>,
              temps |-> << Arena, Len(json_string), Len(json_string) >>]
     ELSE [result |-> Sentinel, log |-> << FailureNotice >>, temps |-> << Arena >>]

(***************************************************************************)
(* The console.  print_ast hands console::log_1 a value built from a copy  *)
(* of json_string, or from the failure notice, and gets nothing back: out  *)
(* is what print_ast has made, sink is what becomes of the emission on the *)
(* host's side, console is what the host's console shows.                  *)
(***************************************************************************)
ConsoleOutcomes == { "delivered", "failed", "absent" }

log_1_shared(sink, out) ==
  [result |-> IF sink = "failed" THEN << >> ELSE out.result,
   log |-> out.log, temps |-> out.temps,
   console |-> IF sink = "delivered" THEN out.log ELSE << >>]

log_1(sink, out) ==
  [result |-> out.result, log |-> out.log, temps |-> out.temps,
   console |-> IF sink = "delivered" THEN out.log ELSE << >>]

(***************************************************************************)
(* String marshaling.  A String is its buffer pointer, length and          *)
(* capacity; its bytes are in linear memory.                               *)
(***************************************************************************)
String(p, text) ==
  [ptr |-> IF Len(text) = 0 THEN Dangling ELSE p, len |-> Len(text), cap |-> Len(text)]

StringBlock(s) == Held(s.ptr, s.cap)

ptr_to_string_short(m, ptr, len) ==
  [text |-> Read(m, ptr, IF len = 0 THEN 0 ELSE len - 1), mem |-> m]

ptr_to_string_consuming(m, ptr, len) ==
  [text |-> Read(m, ptr, len), mem |-> Clear(m, ptr, len)]

\* slice::from_raw_parts_mut, from_utf8_unchecked_mut, String::from: the
\* bytes of the region are copied; the region itself is left as it was.
ptr_to_string(m, ptr, len) == [text |-> Read(m, ptr, len), mem |-> m]

string_to_ptr_capacity_plus(s) == [ptr |-> AsU32(s.ptr), len |-> AsU32(s.len + 1)]

\* (s.as_ptr() as u32, s.len() as u32)
string_to_ptr(s) == [ptr |-> AsU32(s.ptr), len |-> AsU32(s.len)]

forget_skipped(owned, g) == owned

forget_everything(owned, g) == {}

\* std::mem::forget(g): g leaves the values dropped when the call returns.
forget(owned, g) == owned \ { g }

(***************************************************************************)
(* Guest Allocation API.                                                   *)
(***************************************************************************)
\* Vec::with_capacity(size): length 0, a buffer of size bytes at p.
with_capacity(size, p) ==
  [ptr |-> IF size = 0 THEN Dangling ELSE p, cap |-> size, len |-> 0]

\* Vec::into_boxed_slice: the excess capacity is discarded first (as by
\* shrink_to_fit), so a vector of length 0 gives its whole buffer back to the
\* allocator and the box is the empty slice at the dangling pointer.
into_boxed_slice(blocks, vec) ==
  IF vec.cap > vec.len
  THEN IF vec.len = 0
       THEN [box |-> [ptr |-> Dangling, len |-> 0],
             blocks |-> blocks \ Held(vec.ptr, vec.cap)]
       ELSE [box |-> [ptr |-> vec.ptr, len |-> vec.len],
             blocks |-> (blocks \ Held(vec.ptr, vec.cap)) \cup Held(vec.ptr, vec.len)]
  ELSE [box |-> [ptr |-> vec.ptr, len |-> vec.len], blocks |-> blocks]

\* allocate(size), with p the place the allocator picks for the vector:
\* the pointer returned (Box::into_raw) and the live blocks afterwards.
allocate(blocks, size, p) ==
  LET vec == with_capacity(size, p)
      boxed == into_boxed_slice(blocks \cup Held(vec.ptr, vec.cap), vec)
  IN [ret |-> boxed.box.ptr, blocks |-> boxed.blocks]

deallocate_everything(blocks, ptr, size) ==
  IF size = 0 THEN [blocks |-> blocks, undefined |-> FALSE]
  ELSE IF Block(ptr, size) \in blocks
       THEN [blocks |-> {}, undefined |-> FALSE]
       ELSE [blocks |-> blocks, undefined |-> TRUE]

\* deallocate(ptr, size): Vec::from_raw_parts(ptr, 0, size) is dropped, which
\* returns a buffer of size bytes at ptr to the allocator (nothing for size 0).
\* Returning a buffer the allocator does not hold is undefined behaviour.
deallocate(blocks, ptr, size) ==
  IF size = 0 THEN [blocks |-> blocks, undefined |-> FALSE]
  ELSE IF Block(ptr, size) \in blocks
       THEN [blocks |-> blocks \ { Block(ptr, size) }, undefined |-> FALSE]
       ELSE [blocks |-> blocks, undefined |-> TRUE]

(***************************************************************************)
(* State.                                                                  *)
(*   mem     linear memory                                                 *)
(*   blocks  the allocator's live blocks                                   *)
(*   host    the bag of regions the host holds: from allocate ("in") or    *)
(*           returned by print_ast ("out"), with the text print_ast gave   *)
(*   status  "ok", or how the instance ended: "aborted" (allocation        *)
(*           failure) or "undefined" (undefined behaviour was executed)    *)
(*   last    the most recent call and what it returned; for print_ast also *)
(*           its arguments, the text it decoded, whether the parser        *)
(*           reported errors, what was logged, what became of it (sink,    *)
(*           console), the String g it leaked, and                         *)
(*           (fresh, wrote) the text the host wrote to that very region in *)
(*           the step before                                               *)
(*   probe   an input pair of the packed return encoder and its images     *)
(***************************************************************************)
VARIABLES mem, blocks, host, status, last, probe

vars == << mem, blocks, host, status, last, probe >>

Zero64 == << 0, 0, 0, 0 >>

NoCall ==
  [op |-> "none", ptr |-> 0, len |-> 0, text |-> << >>, fresh |-> FALSE,
   wrote |-> << >>, errors |-> FALSE, ret |-> Zero64, log |-> << >>,
   g |-> [ptr |-> 0, len |-> 0, cap |-> 0], sink |-> "none", console |-> << >>]

NoProbe ==
  [stage |-> "idle", p |-> << 0, 0 >>, l |-> << 0, 0 >>, value |-> Zero64,
   offset |-> << 0, 0 >>, length |-> << 0, 0 >>]

Handles == BagToSet(host)

Count(kind) == BagCardinality([h \in { x \in Handles : x.kind = kind } |-> host[h]])

Give(bag, h) == bag (+) SetToBag({ h })
Take(bag, h) == bag (-) SetToBag({ h })

Init ==
  /\ mem = << >>
  /\ blocks = {}
  /\ host = EmptyBag
  /\ status = "ok"
  /\ last = NoCall
  /\ probe = NoProbe

(***************************************************************************)
(* export allocate(size): _allocate.                                       *)
(***************************************************************************)
Allocate(size) ==
  /\ status = "ok"
  /\ Count("in") < MaxInputs
  /\ \E p \in Buffers(blocks, size) :
       LET r == allocate(blocks, size, p)
       IN /\ blocks' = r.blocks
          /\ host' = Give(host, [kind |-> "in", off |-> r.ret, size |-> size,
                                 init |-> FALSE, payload |-> << >>])
          /\ last' = [NoCall EXCEPT !.op = "allocate", !.ret = AsU64(AsU32(r.ret))]
  /\ UNCHANGED << mem, status, probe >>

\* Vec::with_capacity finds no room: the allocation failure aborts the module.
AllocateAbort(size) ==
  /\ status = "ok"
  /\ Buffers(blocks, size) = {}
  /\ status' = "aborted"
  /\ last' = [NoCall EXCEPT !.op = "allocate"]
  /\ UNCHANGED << mem, blocks, host, probe >>

(***************************************************************************)
(* The host writes a source text into a region it got from allocate.       *)
(***************************************************************************)
HostWrite(h, text) ==
  /\ status = "ok"
  /\ h.kind = "in"
  /\ h.size = Len(text)
  /\ mem' = Write(mem, h.off, text)
  /\ host' = Give(Take(host, h), [h EXCEPT !.init = TRUE])
  /\ last' = [NoCall EXCEPT !.op = "write", !.ptr = h.off, !.len = h.size,
                            !.text = text]
  /\ UNCHANGED << blocks, status, probe >>

(***************************************************************************)
(* export print_ast(ptr, len): _print_ast, called on a region the host     *)
(* holds and that has been populated.  p1 is the place of source_text's    *)
(* buffer, p2 the place of the result: any two places that leave room      *)
(* for each other and for the temporaries.  source_text is dropped when    *)
(* the call returns and its buffer is unspecified memory again, so the     *)
(* state after the call depends on p2 alone.                               *)
(***************************************************************************)
RunCall(h) ==
  [NoCall EXCEPT !.op = "run", !.ptr = h.off, !.len = h.size,
                 !.fresh = (last.op = "write" /\ last.ptr = h.off /\ last.len = h.size),
                 !.wrote = IF last.op = "write" THEN last.text ELSE << >>]

ReturnFrom(h, sink, decoded, out, g, source_text) ==
  LET place == string_to_ptr(g)
      owned == forget({ source_text, g }, g)
      ret == pack(place.ptr, place.len)
      got == unpack(ret)
  IN \E dropped \in { UNION { StringBlock(s) : s \in owned } } :
       /\ blocks' = (blocks \cup StringBlock(source_text) \cup StringBlock(g)) \ dropped
       /\ mem' = LET freed == UNION { Range(b.ptr, b.size) : b \in dropped }
                  IN [a \in ((DOMAIN decoded.mem) \cup Range(g.ptr, g.len)) \ freed |->
                        IF a \in Range(g.ptr, g.len)
                        THEN out.result[a - g.ptr + 1]
                        ELSE decoded.mem[a]]
       /\ host' = Give(host, [kind |-> "out", off |-> ToNat(got.offset),
                              size |-> ToNat(got.length), init |-> TRUE,
                              payload |-> out.result])
       /\ last' = [RunCall(h) EXCEPT
                     !.text = decoded.text,
                     !.errors = (parse(decoded.text).errors # {}),
                     !.ret = ret,
                     !.log = out.log,
                     !.g = g,
                     !.sink = sink,
                     !.console = out.console]

Run(h) ==
  /\ status = "ok"
  /\ h.init
  /\ Count("out") < MaxOutputs
  /\ \E decoded \in { ptr_to_string(mem, h.off, h.size) } :
     \E made \in { print_ast(decoded.text) } :
     \E p2 \in Buffers(blocks, Len(made.result)) :
     \E json_string \in { String(p2, made.result) } :
       LET \* source_text and the temporaries fit beside the live blocks and
           \* the result
           Fits(p1) ==
             LET b2 == blocks \cup StringBlock(json_string)
                              \cup StringBlock(String(p1, decoded.text))
             IN \A k \in 1 .. Len(made.temps) : Buffers(b2, made.temps[k]) # {}
           Places == { p1 \in Buffers(blocks \cup StringBlock(json_string), h.size) :
                         Fits(p1) }
       IN /\ Places # {}
          /\ \E source_text \in { String(CHOOSE p1 \in Places : TRUE, decoded.text) } :
             \E sink \in ConsoleOutcomes :
             \E out \in { log_1(sink, made) } :
             \E g \in { String(p2, out.result) } :
               ReturnFrom(h, sink, decoded, out, g, source_text)
  /\ UNCHANGED << status, probe >>

\* One of the allocations of the call finds no room: the module aborts.
RunAbort(h) ==
  /\ status = "ok"
  /\ h.init
  /\ LET decoded == ptr_to_string(mem, h.off, h.size)
         out == print_ast(decoded.text)
     IN \/ Buffers(blocks, h.size) = {}
        \/ \E p1 \in Buffers(blocks, h.size) :
             LET b1 == blocks \cup StringBlock(String(p1, decoded.text))
             IN \/ Buffers(b1, Len(out.result)) = {}
                \/ \E p2 \in Buffers(b1, Len(out.result)) :
                     \E k \in 1 .. Len(out.temps) :
                       Buffers(b1 \cup StringBlock(String(p2, out.result)),
                               out.temps[k]) = {}
  /\ status' = "aborted"
  /\ last' = RunCall(h)
  /\ UNCHANGED << mem, blocks, host, probe >>

(***************************************************************************)
(* export deallocate(ptr, size): _deallocate, called by the host with a    *)
(* region it holds; the host lets go of the region.                        *)
(***************************************************************************)
Deallocate(h) ==
  /\ status = "ok"
  /\ LET d == deallocate(blocks, h.off, h.size)
     IN /\ blocks' = d.blocks
        /\ status' = IF d.undefined THEN "undefined" ELSE "ok"
        /\ mem' = IF d.undefined THEN mem ELSE Clear(mem, h.off, h.size)
  /\ host' = Take(host, h)
  /\ last' = [NoCall EXCEPT !.op = "deallocate", !.ptr = h.off, !.len = h.size]
  /\ UNCHANGED probe

Next ==
  \/ \E size \in AllocSizes : Allocate(size)
  \/ \E size \in AllocSizes : AllocateAbort(size)
  \/ \E h \in Handles, text \in HostTexts : HostWrite(h, text)
  \/ \E h \in Handles : Run(h)
  \/ \E h \in Handles : RunAbort(h)
  \/ \E h \in Handles : Deallocate(h)

Spec == Init /\ [][Next]_vars

(***************************************************************************)
(* The packed return encoder on its own: an input pair (p, l) of 32-bit    *)
(* values is packed as print_ast packs its result, then unpacked as the    *)
(* host does.                                                              *)
(***************************************************************************)
Samples ==
  { << 0, 0 >>, << 0, 1 >>, << 0, 4 >>, << 0, 10 >>, << 0, LimbBase - 1 >>,
    << 1, 0 >>, << 1, 1 >>, << LimbBase \div 2, 0 >>, << 43690, 21845 >>,
    << LimbBase - 1, LimbBase - 1 >> }

InitPack ==
  /\ mem = << >>
  /\ blocks = {}
  /\ host = EmptyBag
  /\ status = "ok"
  /\ last = NoCall
  /\ probe \in { [NoProbe EXCEPT !.stage = "input", !.p = p, !.l = l] :
                   p \in Samples, l \in Samples }

PackStep ==
  /\ probe.stage = "input"
  /\ probe' = [probe EXCEPT !.stage = "packed", !.value = pack(probe.p, probe.l)]
  /\ UNCHANGED << mem, blocks, host, status, last >>

UnpackStep ==
  /\ probe.stage = "packed"
  /\ probe' = [probe EXCEPT !.stage = "unpacked",
                            !.offset = unpack(probe.value).offset,
                            !.length = unpack(probe.value).length]
  /\ UNCHANGED << mem, blocks, host, status, last >>

NextPack == PackStep \/ UnpackStep

SpecPack == InitPack /\ [][NextPack]_vars

(***************************************************************************)
(* Properties.                                                             *)
(***************************************************************************)
Live(h) == Block(h.off, h.size) \in blocks

\* What the host reads at the region the last print_ast call returned.
Returned == unpack(last.ret)
OutOffset == ToNat(Returned.offset)
OutLength == ToNat(Returned.length)
Payload == Read(mem, OutOffset, OutLength)

RunReturned == last.op = "run" /\ status = "ok"

\* The decimal digits of a u64, most significant first.
RECURSIVE DivTen(_, _, _)
DivTen(v, i, rem) ==
  IF i > 4 THEN [quot |-> << >>, rem |-> rem]
  ELSE LET cur == rem * LimbBase + v[i]
           rest == DivTen(v, i + 1, cur % 10)
       IN [quot |-> << cur \div 10 >> \o rest.quot, rem |-> rest.rem]

RECURSIVE Decimal(_)
Decimal(v) ==
  LET d == DivTen(v, 1, 0)
  IN IF d.quot = << 0, 0, 0, 0 >> THEN << d.rem >> ELSE Decimal(d.quot) \o << d.rem >>

\* C1: a region returned by allocate(size) reserves size bytes at the
\* returned offset and overlaps no other region the host holds (allocated or
\* leaked earlier and not yet deallocated).
AllocateReservesDisjointRegion ==
  status = "ok" =>
    \A h \in Handles :
      h.size > 0 =>
        /\ Live(h)
        /\ host[h] = 1
        /\ \A k \in Handles \ { h } : ~Overlap(h.off, h.size, k.off, k.size)

\* C2: after print_ast returns, the pair unpacked from the packed value is a
\* valid argument pair for deallocate: it is the pointer and the size of one
\* live block, which the host holds once, and deallocate reclaims exactly it.
RunResultIsDeallocatable ==
  RunReturned =>
    /\ Block(OutOffset, OutLength) \in blocks
    /\ \E h \in Handles :
         h.kind = "out" /\ h.off = OutOffset /\ h.size = OutLength /\ host[h] = 1
    /\ LET d == deallocate(blocks, OutOffset, OutLength)
       IN ~d.undefined /\ d.blocks = blocks \ { Block(OutOffset, OutLength) }

RunResultReached == RunReturned /\ ~last.errors /\ OutLength = Len(to_string_pretty(<< "V" >>))

PackUnpackInverse ==
  /\ probe.stage \in { "packed", "unpacked" } =>
       probe.value = << probe.p[1], probe.p[2], probe.l[1], probe.l[2] >>
  /\ probe.stage = "unpacked" => probe.offset = probe.p /\ probe.length = probe.l
  /\ (probe.stage = "packed" /\ probe.p = AsU32(4) /\ probe.l = AsU32(10)) =>
       Decimal(probe.value) = << 1, 7, 1, 7, 9, 8, 6, 9, 1, 9, 4 >>

PackUnpackReached ==
  /\ probe.stage = "unpacked"
  /\ probe.p = << LimbBase - 1, LimbBase - 1 >>
  /\ probe.l = << 43690, 21845 >>

\* C5: print_ast never frees and never mutates its input region: across the
\* call the bytes of [ptr, ptr + len) are the same, the host still holds
\* every region it held, and the input's block, if live, is still live.
RunLeavesInput ==
  [][(last'.op = "run" /\ status' = "ok") =>
       /\ Read(mem', last'.ptr, last'.len) = Read(mem, last'.ptr, last'.len)
       /\ \A h \in Handles : BagIn(h, host') /\ host'[h] >= host[h]
       /\ Block(last'.ptr, last'.len) \in blocks =>
            Block(last'.ptr, last'.len) \in blocks']_vars

RunLeavesInputReached ==
  /\ RunReturned
  /\ last.len > 0
  /\ Block(last.ptr, last.len) \in blocks
  /\ Read(mem, last.ptr, last.len) = last.text

\* C6: leak-then-free: as long as the host holds an output region, whatever
\* calls are made on other regions, the region is a live block and holds the
\* result text print_ast produced for it.
OutputStaysReadable ==
  status = "ok" =>
    \A h \in Handles :
      h.kind = "out" => Live(h) /\ Read(mem, h.off, h.size) = h.payload

OutputStaysReadableReached ==
  /\ status = "ok"
  /\ last.op = "deallocate"
  /\ \E h \in Handles : h.kind = "out" /\ h.payload # Sentinel
  /\ \E h \in Handles : h.kind = "in" /\ h.init

\* C7: when the parser reports errors, the payload the host reads at the
\* returned region is exactly the sentinel, all of it and nothing else.
ParseFailureGivesSentinel ==
  (RunReturned /\ last.errors) => Payload = Sentinel /\ OutLength = Len(Sentinel)

ParseFailureReached == RunReturned /\ last.errors /\ last.text = TextInvalid

\* C8: when the parser reports no error, the payload is the pretty-printed
\* serialization of the program and not the sentinel; the sentinel is the
\* payload only when the parser reported errors.
ParseSuccessGivesSerialization ==
  RunReturned =>
    /\ ~last.errors =>
         /\ Payload = to_string_pretty(parse(last.text).program)
         /\ Payload # Sentinel
    /\ Payload = Sentinel => last.errors

ParseSuccessReached == RunReturned /\ ~last.errors /\ last.text = TextValid

\* C9: every live region has exactly one owner, the host holding it once,
\* and a region the host holds has not been reclaimed: it is reclaimed only
\* by the deallocate the host issues for it.
SingleOwnerUntilDeallocate ==
  status = "ok" =>
    /\ \A b \in blocks :
         \E h \in Handles : h.off = b.ptr /\ h.size = b.size /\ host[h] = 1
    /\ \A h \in Handles : h.size > 0 => Live(h)

\* C10: a host that pairs every allocate and every print_ast result with one
\* matching deallocate sees every deallocate complete, and once it holds no
\* region no block is live.
PairedCallsLeaveNothing ==
  /\ last.op = "deallocate" => status = "ok"
  /\ (status = "ok" /\ host = EmptyBag) => blocks = {}

\* C11: the packed value print_ast returns describes exactly the result: its
\* high half is the address of the first byte of the leaked String g, its low
\* half is the byte length of g, and the bytes the host reads there are the
\* whole result text (serialization or sentinel), no fewer and no more.
PackedValueDescribesResult ==
  RunReturned =>
    /\ OutOffset = last.g.ptr
    /\ OutLength = last.g.len
    /\ Block(last.g.ptr, last.g.cap) \in blocks
    /\ OutLength = Len(print_ast(last.text).result)
    /\ Payload = print_ast(last.text).result

PackedValueReached ==
  /\ RunReturned
  /\ OutOffset > HeapBase
  /\ OutOffset # OutLength
  /\ Payload = Sentinel

\* C12: deallocate(offset, size) on a pair the host holds that matches a live
\* block reclaims exactly that block: it leaves the live blocks and the host's
\* hands, its place is free for a later allocation, and every other region
\* the host holds keeps its block, its size and its bytes.
DeallocateReclaimsExactly ==
  [][\A h \in Handles :
       (/\ last'.op = "deallocate"
        /\ CopiesIn(h, host') < CopiesIn(h, host)
        /\ Live(h)) =>
         /\ status' = "ok"
         /\ blocks' = blocks \ { Block(h.off, h.size) }
         /\ h.off \in Buffers(blocks', h.size)
         /\ host' = Take(host, h)
         /\ \A k \in BagToSet(host') :
              /\ Live(k) => Block(k.off, k.size) \in blocks'
              /\ ~Overlap(k.off, k.size, h.off, h.size) =>
                   Read(mem', k.off, k.size) = Read(mem, k.off, k.size)]_vars

DeallocateReclaimsReached ==
  /\ status = "ok"
  /\ last.op = "deallocate"
  /\ last.len = Len(Sentinel)
  /\ Block(last.ptr, last.len) \notin blocks
  /\ \E k \in Handles :
       /\ k.kind = "out"
       /\ Live(k)
       /\ k.off > last.ptr
       /\ Read(mem, k.off, k.size) = to_string_pretty(<< "V" >>)

RunLeaksExactlyOne ==
  [][(last'.op = "run" /\ status' = "ok") =>
       /\ Block(last'.g.ptr, last'.g.cap) \notin blocks
       /\ blocks' = blocks \cup { Block(last'.g.ptr, last'.g.cap) }
       /\ last'.g.ptr = ToNat(unpack(last'.ret).offset)
       /\ last'.g.cap = ToNat(unpack(last'.ret).length)
       /\ BagCardinality(host') = BagCardinality(host) + 1]_vars

RunLeaksOneReached ==
  /\ RunReturned
  /\ ~last.errors
  /\ last.len = Len(TextValid)
  /\ print_ast(last.text).temps # << >>
  /\ blocks = { Block(last.g.ptr, last.g.cap) }

=============================================================================
